---- MODULE Spec2Model ----
(***************************************************************************)
(* Model of the ATen operator executor (operator cache, autograd context   *)
(* cache, forward edge walk, backward execution loop) and of the ROCm      *)
(* reduction kernel family.                                                *)
(*                                                                         *)
(* Argument indices and positions are 0-based as in the C++ code; TLA+     *)
(* sequences are 1-based, so element i of a vector v is v[i + 1].          *)
(* A tensor (at::Tensor) is a handle to a tensor object: assignment copies *)
(* the handle, += changes the object in place.                             *)
(***************************************************************************)
EXTENDS Integers, Sequences, FiniteSets, TLC

\* ------------------------------------------------------------------ bounds
\* contexts inserted in one behaviour
MaxContexts == 2
\* the registry lookup counter of a key saturates here
MaxLookups == 2
\* contexts inserted in one behaviour of the graph-walk specification
MaxWalks == 1
MaxThreadCalls == 3

\* ------------------------------------------------------- host: the registry
\* A schema type is the sequence of its kinds, outermost first:
\* Optional(List(Int)) is <<"OptionalType", "ListType", "IntType">>.
Arg(type, has_default) == [type |-> type, default_value |-> has_default]

\* The operator names a caller passes. The schemas are those the host
\* registers under these names; <<"nope", "">> is not registered.
Keys ==
  { <<"clamp", "Tensor">>, <<"relu", "">>, <<"sum", "dim_IntList">>,
    <<"dropout", "">>, <<"cat", "">>, <<"nope", "">> }

Registry ==
  ( <<"clamp", "Tensor">> :>
      [arguments |-> << Arg(<<"TensorType">>, FALSE), Arg(<<"OptionalType", "TensorType">>, FALSE),
                        Arg(<<"OptionalType", "TensorType">>, FALSE) >>,
       returns |-> << <<"TensorType">> >>] ) @@
  ( <<"relu", "">> :>
      [arguments |-> << Arg(<<"TensorType">>, FALSE) >>,
       returns |-> << <<"TensorType">> >>] ) @@
  ( <<"sum", "dim_IntList">> :>
      [arguments |-> << Arg(<<"TensorType">>, FALSE), Arg(<<"ListType", "IntType">>, FALSE),
                        Arg(<<"BoolType">>, TRUE), Arg(<<"OptionalType", "IntType">>, FALSE) >>,
       returns |-> << <<"TensorType">> >>] ) @@
  ( <<"dropout", "">> :>
      [arguments |-> << Arg(<<"TensorType">>, FALSE), Arg(<<"FloatType">>, FALSE),
                        Arg(<<"BoolType">>, FALSE) >>,
       returns |-> << <<"TensorType">> >>] ) @@
  ( <<"cat", "">> :>
      [arguments |-> << Arg(<<"ListType", "TensorType">>, FALSE), Arg(<<"IntType">>, TRUE) >>,
       returns |-> << <<"TensorType">> >>] )

\* torch::jit::findOperatorFor: the schema, or none
findOperatorFor(key) == IF key \in DOMAIN Registry THEN {Registry[key]} ELSE {}

\* --------------------------------------------------------- ATenOperatorCache
\* The loop body of GetOperator for one schema argument.
ElemInfoNoUnwrap(type) ==
  LET elem_type0 == Head(type)
      is_list == elem_type0 = "ListType"
  IN  [elem_kind |-> IF is_list THEN Head(Tail(type)) ELSE elem_type0,
       is_list |-> is_list,
       is_optional |-> elem_type0 = "OptionalType"]

ElemInfo(type) ==
  LET elem_type0 == Head(type)
      is_optional == elem_type0 = "OptionalType"
      type1 == IF is_optional THEN Tail(type) ELSE type
      elem_type1 == Head(type1)
      is_list == elem_type1 = "ListType"
      elem_type == IF is_list THEN Head(Tail(type1)) ELSE elem_type1
  IN  [elem_kind |-> elem_type, is_list |-> is_list, is_optional |-> is_optional]

\* The ATenOperator GetOperator builds from a schema (op is the key itself).
BuildATenOperator(key, schema) ==
  LET n == Len(schema.arguments)
      info == [i \in 1..n |-> ElemInfo(schema.arguments[i].type)]
  IN  [op |-> key,
       argument_size |-> n,
       elem_kinds |-> [i \in 1..n |-> info[i].elem_kind],
       is_list_arguments |-> [i \in 1..n |-> info[i].is_list],
       is_optional_arguments |-> [i \in 1..n |-> info[i].is_optional],
       default_values |-> [i \in 1..n |-> schema.arguments[i].default_value],
       return_size |-> Len(schema.returns)]

\* The assertions GetOperator makes while it builds an entry; 0 when all hold,
\* else the source line of the first that fails.
BuildFailure(key) ==
  IF findOperatorFor(key) = {} THEN 139
  ELSE LET schema == Registry[key]
           n == Len(schema.arguments)
       IN  IF \E i \in 1..n : LET e == ElemInfo(schema.arguments[i].type)
                              IN  e.elem_kind = "TensorType" /\ e.is_list
           THEN 157
           ELSE IF \E r \in 1..Len(schema.returns) : Head(schema.returns[r]) # "TensorType"
                THEN 165
                ELSE 0

Saturate(n) == IF n < MaxLookups THEN n + 1 ELSE MaxLookups

\* GetOperator(op_name, overload_name) on cache ops and lookup counter lk:
\* the cache and counter afterwards, whether the registry was consulted, and
\* the line of the failed assertion (0: the call returned ops[key]).
GetOperatorNoCache(ops, lk, key) ==
  LET fail == BuildFailure(key)
  IN  [ops |-> IF fail = 0
               THEN [k \in DOMAIN ops \cup {key} |->
                       IF k = key THEN BuildATenOperator(key, Registry[key]) ELSE ops[k]]
               ELSE ops,
       lookups |-> [lk EXCEPT ![key] = Saturate(lk[key])],
       looked_up |-> TRUE,
       site |-> fail]

GetOperator(ops, lk, key) ==
  IF key \in DOMAIN ops
  THEN [ops |-> ops, lookups |-> lk, looked_up |-> FALSE, site |-> 0]
  ELSE LET fail == BuildFailure(key)
       IN  [ops |-> IF fail = 0
                    THEN [k \in DOMAIN ops \cup {key} |->
                            IF k = key THEN BuildATenOperator(key, Registry[key]) ELSE ops[k]]
                    ELSE ops,
            lookups |-> [lk EXCEPT ![key] = Saturate(lk[key])],
            looked_up |-> TRUE,
            site |-> fail]

\* -------------------------------------------------- DLPack to IValue
\* A DLManagedTensor* of the caller: its dtype and shape, or the null pointer.
DLPack(code, bits, ndim, shape0) == [code |-> code, bits |-> bits, ndim |-> ndim, shape0 |-> shape0]
NullDLPack == DLPack("nullptr", 0, 0, 0)
F32 == DLPack("kDLFloat", 32, 1, 1)
F32x2 == DLPack("kDLFloat", 32, 1, 2)
I64 == DLPack("kDLInt", 64, 1, 1)
I64s == DLPack("kDLInt", 64, 0, 0)
U8 == DLPack("kDLUInt", 8, 0, 0)

\* An IValue: its tag, and for a tensor whether its dtype is floating point.
IValue(tag, floating) == [tag |-> tag, floating |-> floating]
NoIValue == IValue("none", FALSE)
Converted(iv) == [site |-> 0, ivalue |-> iv]
Failed(line) == [site |-> line, ivalue |-> NoIValue]

\* the shape test of ToIValue<T> and of the scalar branch of Int64ToBoolIValue
IsScalarShape(dlpack) ==
  (dlpack.ndim = 0) \/ (dlpack.ndim = 1 /\ dlpack.shape0 = 1)

ToIValue(dlpack, tag) ==
  IF IsScalarShape(dlpack) THEN Converted(IValue(tag, FALSE)) ELSE Failed(25)

ToListIValue(dlpack, tag) ==
  IF dlpack.ndim = 1 THEN Converted(IValue(tag, FALSE)) ELSE Failed(33)

Int64ToBoolIValue(dlpack, is_list) ==
  IF is_list
  THEN IF dlpack.ndim = 1 THEN Converted(IValue("BoolList", FALSE)) ELSE Failed(45)
  ELSE IF IsScalarShape(dlpack) THEN Converted(IValue("Bool", FALSE)) ELSE Failed(55)

\* ATenOperator::ToIValueArgument(dlpack, index)
ToIValueArgument(aten_op, dlpack, index) ==
  IF ~(index < aten_op.argument_size) THEN Failed(71)
  ELSE
    LET is_optional == aten_op.is_optional_arguments[index + 1]
        is_list == aten_op.is_list_arguments[index + 1]
        kind == aten_op.elem_kinds[index + 1]
    IN  IF ~(dlpack # NullDLPack \/ is_optional \/ aten_op.default_values[index + 1])
        THEN Failed(73)
        ELSE IF dlpack = NullDLPack
        THEN IF is_optional THEN Converted(IValue("None", FALSE))
                            ELSE Converted(IValue("Default", FALSE))
        ELSE CASE kind = "TensorType" ->
                    Converted(IValue("Tensor", dlpack.code = "kDLFloat"))
               [] kind = "IntType" ->
                    IF ~(dlpack.code = "kDLInt" /\ dlpack.bits = 64) THEN Failed(91)
                    ELSE IF is_list THEN ToListIValue(dlpack, "IntList")
                                    ELSE ToIValue(dlpack, "Int")
               [] kind = "FloatType" ->
                    IF ~(dlpack.code = "kDLFloat" /\ dlpack.bits = 32) THEN Failed(96)
                    ELSE IF is_list THEN ToListIValue(dlpack, "DoubleList")
                                    ELSE ToIValue(dlpack, "Double")
               [] kind = "BoolType" ->
                    IF dlpack.code = "kDLInt" /\ dlpack.bits = 64
                    THEN Int64ToBoolIValue(dlpack, is_list)
                    ELSE IF ~(dlpack.code = "kDLUInt" /\ dlpack.bits = 8) THEN Failed(106)
                    ELSE IF is_list THEN ToListIValue(dlpack, "BoolList")
                                    ELSE ToIValue(dlpack, "Bool")
               [] OTHER -> Failed(112)

\* The loop of ExecuteATenOperator that fills arguments: the converted
\* arguments, or the line of the first assertion that fails.
RECURSIVE ToArguments(_, _, _, _)
ToArguments(aten_op, dlpacks, i, arguments) ==
  IF i >= Len(dlpacks) THEN [site |-> 0, arguments |-> arguments]
  ELSE LET c == ToIValueArgument(aten_op, dlpacks[i + 1], i)
       IN  IF c.site # 0 THEN [site |-> c.site, arguments |-> arguments]
           ELSE ToArguments(aten_op, dlpacks, i + 1, Append(arguments, c.ivalue))

\* ---------------------------------------------------- marking the arguments
\* The loop over requires_grad of ExecuteATenOperator. It reads arguments[i]
\* for each position i of requires_grad. Reading past the end of arguments is
\* undefined: ub is what the build makes of it ("crash" or "throw").
\* toTensor() and toOptional<at::Tensor>().value() both throw unless the
\* IValue holds a tensor; requires_grad_(true) throws for a non-floating dtype.
\* Result: how the loop ended, where, and the arguments it marked.
MarkResult(outcome, site, marked) == [outcome |-> outcome, site |-> site, marked |-> marked]

RECURSIVE MarkArguments(_, _, _, _, _, _)
MarkArguments(aten_op, arguments, requires_grad, i, marked, ub) ==
  IF i >= Len(requires_grad) THEN MarkResult("ok", 0, marked)
  ELSE IF i >= Len(arguments) THEN MarkResult(ub, 263, marked)
  ELSE IF arguments[i + 1].tag # "Tensor" THEN MarkResult("throw", 263, marked)
  ELSE IF ~arguments[i + 1].floating THEN MarkResult("throw", 264, marked)
  ELSE MarkArguments(aten_op, arguments, requires_grad, i + 1, marked \cup {i}, ub)

\* ------------------------------------------------- host: the autograd graph
\* A node is named by the call that built it; the null shared_ptr is NullNode.
NullNode == <<0 - 1, "null", 0>>
FnNode(c, k) == <<c, "fn", k>>
AccNode(c, j) == <<c, "acc", j>>
Variable(c, j) == <<c, "var", j>>
AccumulateGradName == "torch::autograd::AccumulateGrad"

\* What an operator run under autograd builds: a finite acyclic graph of
\* backward nodes over the operator's tensor arguments. Node 1 is the output's
\* grad_fn. An edge leads to node idx or to the argument idx; applied to an
\* incoming gradient g, the node's backward function returns for the edge
\* either g itself (alias: the same tensor object) or a new tensor w * g.
ToArg(j, alias, w) == [kind |-> "arg", idx |-> j, alias |-> alias, w |-> w]
ToNode(k, alias, w) == [kind |-> "node", idx |-> k, alias |-> alias, w |-> w]

TemplateNames == {"unary", "addlike", "mullike", "shared", "addreuse"}

Template(name) ==
  CASE name = "unary" -> << << ToArg(0, FALSE, 2) >> >>
    [] name = "addlike" -> << << ToArg(0, TRUE, 1), ToArg(1, TRUE, 1) >> >>
    [] name = "mullike" -> << << ToArg(0, FALSE, 2), ToArg(1, FALSE, 3) >> >>
    [] name = "shared" -> << << ToNode(2, FALSE, 2), ToNode(2, FALSE, 3) >>,
                             << ToArg(0, FALSE, 1) >> >>
    [] name = "addreuse" -> << << ToNode(2, TRUE, 1), ToNode(3, TRUE, 1) >>,
                               << ToArg(0, TRUE, 1), ToArg(1, TRUE, 1) >>,
                               << ToArg(0, FALSE, 2) >> >>

\* the graphs an operator can build over these arguments: every argument a
\* graph has an edge to holds a tensor
ValidTemplates(arguments) ==
  { name \in TemplateNames :
      \A k \in 1..Len(Template(name)) : \A i \in 1..Len(Template(name)[k]) :
        LET e == Template(name)[k][i]
        IN  e.kind = "arg" => (e.idx < Len(arguments) /\ arguments[e.idx + 1].tag = "Tensor") }

\* A backward node is built only when one of its inputs requires grad
\* (edges lead to nodes with larger numbers, so this terminates).
RECURSIVE NodeExists(_, _, _)
NodeExists(tmpl, marked, k) ==
  \E i \in 1..Len(tmpl[k]) :
    LET e == tmpl[k][i]
    IN  IF e.kind = "arg" THEN e.idx \in marked ELSE NodeExists(tmpl, marked, e.idx)

\* The edge collected for an input: to its grad_fn, to its AccumulateGrad, or
\* the invalid edge (null function) when the input does not require grad.
EdgeFunction(c, tmpl, marked, e) ==
  IF e.kind = "arg"
  THEN IF e.idx \in marked THEN AccNode(c, e.idx) ELSE NullNode
  ELSE IF NodeExists(tmpl, marked, e.idx) THEN FnNode(c, e.idx) ELSE NullNode

OutputGradFn(c, tmpl, marked) ==
  IF NodeExists(tmpl, marked, 1) THEN FnNode(c, 1) ELSE NullNode

Node(name, next_edges, variable) ==
  [name |-> name, next_edges |-> next_edges, variable |-> variable]

\* the nodes call c builds for the graph tmpl with the arguments in marked
\* requiring grad
BuildGraph(c, tmpl, marked) ==
  LET fns == { k \in 1..Len(tmpl) : NodeExists(tmpl, marked, k) }
      accs == { j \in marked : \E k \in fns : \E i \in 1..Len(tmpl[k]) :
                  tmpl[k][i].kind = "arg" /\ tmpl[k][i].idx = j }
      ids == { FnNode(c, k) : k \in fns } \cup { AccNode(c, j) : j \in accs }
  IN  [id \in ids |->
         IF id[2] = "fn"
         THEN Node("Backward",
                   [i \in 1..Len(tmpl[id[3]]) |->
                      [function |-> EdgeFunction(c, tmpl, marked, tmpl[id[3]][i]),
                       alias |-> tmpl[id[3]][i].alias,
                       w |-> tmpl[id[3]][i].w]],
                   NullNode)
         ELSE Node(AccumulateGradName, <<>>, Variable(c, id[3]))]

\* ----------------------------------------------- the forward edge walk
\* The while loop of ExecuteATenOperator over grad_fn_queue. Dereferencing a
\* null grad_fn or a null edge.function ends the process ("crash").
WalkResult(outcome, site, fns) == [outcome |-> outcome, site |-> site, input_grad_fns |-> fns]

RECURSIVE WalkForward(_, _, _, _)
RECURSIVE ForwardEdges(_, _, _, _, _, _)
ForwardEdges(heap, grad_ptr_to_indices, edges, i, queue, fns) ==
  IF i > Len(edges) THEN WalkForward(heap, grad_ptr_to_indices, queue, fns)
  ELSE LET function == edges[i].function
       IN  IF function = NullNode THEN WalkResult("crash", 282, fns)
           ELSE IF heap[function].name = AccumulateGradName
           THEN LET v == heap[function].variable
                    found == v \in DOMAIN grad_ptr_to_indices
                    fns2 == IF found /\ fns[grad_ptr_to_indices[v] + 1] = NullNode
                            THEN [fns EXCEPT ![grad_ptr_to_indices[v] + 1] = function]
                            ELSE fns
                IN  ForwardEdges(heap, grad_ptr_to_indices, edges, i + 1, queue, fns2)
           ELSE ForwardEdges(heap, grad_ptr_to_indices, edges, i + 1,
                             Append(queue, function), fns)

WalkForward(heap, grad_ptr_to_indices, queue, fns) ==
  IF queue = <<>> THEN WalkResult("ok", 0, fns)
  ELSE LET grad_fn == Head(queue)
       IN  IF grad_fn = NullNode THEN WalkResult("crash", 280, fns)
           ELSE ForwardEdges(heap, grad_ptr_to_indices, heap[grad_fn].next_edges, 1,
                             Tail(queue), fns)

\* ------------------------------------------------------ AutogradContextCache
AutogradContext(output_grad_fn, input_grad_fns) ==
  [output_grad_fn |-> output_grad_fn, input_grad_fns |-> input_grad_fns]
NoContext == AutogradContext(NullNode, <<>>)

\* CreateId: context_id_++ on the static atomic counter
CreateIdNoIncrement(counter) == [id |-> counter, counter |-> counter]

CreateId(counter) == [id |-> counter, counter |-> counter + 1]

\* unordered_map::emplace: no effect when the key is present
EmplaceIgnored(map, key, value) == map

Emplace(map, key, value) ==
  IF key \in DOMAIN map THEN map
  ELSE [k \in DOMAIN map \cup {key} |-> IF k = key THEN value ELSE map[k]]

InsertAtZero(contexts, counter, autograd_context) ==
  LET created == CreateId(counter)
  IN  [contexts |-> Emplace(contexts, 0, autograd_context),
       counter |-> created.counter,
       context_id |-> created.id]

Insert(contexts, counter, autograd_context) ==
  LET created == CreateId(counter)
  IN  [contexts |-> Emplace(contexts, created.id, autograd_context),
       counter |-> created.counter,
       context_id |-> created.id]

Erase(map, key) == [k \in DOMAIN map \ {key} |-> map[k]]

\* What an emplace can leave behind when it ran at the same time as the
\* emplaces of the keys in racing (a data race on the unlocked map): the map
\* with the entry added, the map without it, or the map with the entry added
\* and an entry of a racing emplace gone.
RacedEmplace(map, key, value, racing) ==
  IF racing = {} THEN { Emplace(map, key, value) }
  ELSE { Emplace(map, key, value), map }
         \cup { Erase(Emplace(map, key, value), k) : k \in racing }

PopNoErase(contexts, context_id) ==
  IF context_id \notin DOMAIN contexts
  THEN [site |-> 201, contexts |-> contexts, autograd_context |-> NoContext]
  ELSE [site |-> 0, contexts |-> contexts, autograd_context |-> contexts[context_id]]

Pop(contexts, context_id) ==
  IF context_id \notin DOMAIN contexts
  THEN [site |-> 201, contexts |-> contexts, autograd_context |-> NoContext]
  ELSE [site |-> 0, contexts |-> Erase(contexts, context_id),
        autograd_context |-> contexts[context_id]]

\* ------------------------------------------- the backward execution loop
\* Tensor objects are numbered; tensors[h] is the value of object h. A
\* variable's grad is a handle (the object's number), absent while undefined.
\* (*node)({g}): one gradient per edge, computed before any is delivered.
RECURSIVE ApplyNode(_, _, _, _, _)
ApplyNode(edges, i, in, tensors, gradients) ==
  IF i > Len(edges) THEN [tensors |-> tensors, gradients |-> gradients]
  ELSE IF edges[i].alias
       THEN ApplyNode(edges, i + 1, in, tensors, Append(gradients, in))
       ELSE ApplyNode(edges, i + 1, in, Append(tensors, edges[i].w * tensors[in]),
                      Append(gradients, Len(tensors) + 1))

ExecState(queue, tensors, grad, accu_set) ==
  [queue |-> queue, tensors |-> tensors, grad |-> grad, accu_set |-> accu_set]
ExecResult(outcome, site, st) ==
  [outcome |-> outcome, site |-> site, tensors |-> st.tensors, grad |-> st.grad]

\* mutable_grad() = gradients[i]: the variable's grad becomes the same object
AssignGrad(st, v, h) ==
  [st EXCEPT !.grad = [u \in DOMAIN st.grad \cup {v} |-> IF u = v THEN h ELSE st.grad[u]]]

\* mutable_grad() += gradients[i]: the object the grad refers to changes in place
AddToGrad(st, v, h) ==
  [st EXCEPT !.tensors = [st.tensors EXCEPT ![st.grad[v]] = st.tensors[st.grad[v]] + st.tensors[h]]]

RECURSIVE WalkBackward(_, _)
RECURSIVE BackwardEdges(_, _, _, _, _)
BackwardEdges(heap, edges, gradients, i, st) ==
  IF i > Len(edges) THEN WalkBackward(heap, st)
  ELSE LET function == edges[i].function
       IN  IF function = NullNode THEN ExecResult("crash", 320, st)
           ELSE IF heap[function].name = AccumulateGradName
           THEN LET v == heap[function].variable
                IN  IF function \notin st.accu_set
                    THEN BackwardEdges(heap, edges, gradients, i + 1,
                           [AssignGrad(st, v, gradients[i])
                              EXCEPT !.accu_set = st.accu_set \cup {function}])
                    ELSE BackwardEdges(heap, edges, gradients, i + 1,
                                       AddToGrad(st, v, gradients[i]))
           ELSE BackwardEdges(heap, edges, gradients, i + 1,
                  [st EXCEPT !.queue = Append(st.queue, <<function, gradients[i]>>)])

WalkBackward(heap, st) ==
  IF st.queue = <<>> THEN ExecResult("ok", 0, st)
  ELSE LET execution_unit == Head(st.queue)
       IN  IF execution_unit[1] = NullNode THEN ExecResult("crash", 315, st)
           ELSE LET edges == heap[execution_unit[1]].next_edges
                    applied == ApplyNode(edges, 1, execution_unit[2], st.tensors, <<>>)
                IN  BackwardEdges(heap, edges, applied.gradients, 1,
                                  [st EXCEPT !.queue = Tail(st.queue),
                                             !.tensors = applied.tensors])

\* ------------------------------------- the two loops, one iteration at a time
\* The graphs the loops are run on: those of Template and two in which a node
\* is reached along several paths of different lengths.
LoopTemplateNames == TemplateNames \cup {"diamond", "ladder"}

LoopTemplate(name) ==
  CASE name = "diamond" -> << << ToNode(2, FALSE, 2), ToNode(3, FALSE, 3), ToNode(4, TRUE, 1) >>,
                              << ToNode(4, TRUE, 1) >>,
                              << ToNode(4, FALSE, 2) >>,
                              << ToArg(0, FALSE, 1), ToArg(1, FALSE, 1) >> >>
    [] name = "ladder" -> << << ToNode(2, TRUE, 1), ToNode(2, FALSE, 2) >>,
                             << ToNode(3, TRUE, 1), ToNode(3, FALSE, 2) >>,
                             << ToArg(0, TRUE, 1) >> >>
    [] OTHER -> Template(name)

\* One pass of the body of while (!grad_fn_queue.empty()): the front node is
\* popped and its edges are gone through; the pass ends the process when it
\* dereferences a null grad_fn or a null edge.function.
IterationResult(outcome, site, queue, fns) ==
  [outcome |-> outcome, site |-> site, queue |-> queue, fns |-> fns]

RECURSIVE PushEdges(_, _, _, _, _, _)
PushEdges(heap, grad_ptr_to_indices, edges, i, queue, fns) ==
  IF i > Len(edges) THEN IterationResult("ok", 0, queue, fns)
  ELSE LET function == edges[i].function
       IN  IF function = NullNode THEN IterationResult("crash", 282, queue, fns)
           ELSE IF heap[function].name = AccumulateGradName
           THEN LET v == heap[function].variable
                    found == v \in DOMAIN grad_ptr_to_indices
                    fns2 == IF found /\ fns[grad_ptr_to_indices[v] + 1] = NullNode
                            THEN [fns EXCEPT ![grad_ptr_to_indices[v] + 1] = function]
                            ELSE fns
                IN  PushEdges(heap, grad_ptr_to_indices, edges, i + 1, queue, fns2)
           ELSE PushEdges(heap, grad_ptr_to_indices, edges, i + 1, Append(queue, function), fns)

ForwardIteration(heap, grad_ptr_to_indices, queue, fns) ==
  LET grad_fn == Head(queue)
  IN  IF grad_fn = NullNode THEN IterationResult("crash", 280, queue, fns)
      ELSE PushEdges(heap, grad_ptr_to_indices, heap[grad_fn].next_edges, 1, Tail(queue), fns)

\* One pass of the body of while (!execution_queue.empty()): the front unit
\* is popped, its node applied, and its gradients delivered or queued.
UnitResult(outcome, site, st) == [outcome |-> outcome, site |-> site, st |-> st]

RECURSIVE DeliverEdges(_, _, _, _, _)
DeliverEdges(heap, edges, gradients, i, st) ==
  IF i > Len(edges) THEN UnitResult("ok", 0, st)
  ELSE LET function == edges[i].function
       IN  IF function = NullNode THEN UnitResult("crash", 320, st)
           ELSE IF heap[function].name = AccumulateGradName
           THEN LET v == heap[function].variable
                IN  IF function \notin st.accu_set
                    THEN DeliverEdges(heap, edges, gradients, i + 1,
                           [AssignGrad(st, v, gradients[i])
                              EXCEPT !.accu_set = st.accu_set \cup {function}])
                    ELSE DeliverEdges(heap, edges, gradients, i + 1,
                                      AddToGrad(st, v, gradients[i]))
           ELSE DeliverEdges(heap, edges, gradients, i + 1,
                  [st EXCEPT !.queue = Append(st.queue, <<function, gradients[i]>>)])

ExecuteUnit(heap, st) ==
  LET execution_unit == Head(st.queue)
  IN  IF execution_unit[1] = NullNode THEN UnitResult("crash", 315, st)
      ELSE LET edges == heap[execution_unit[1]].next_edges
               applied == ApplyNode(edges, 1, execution_unit[2], st.tensors, <<>>)
           IN  DeliverEdges(heap, edges, applied.gradients, 1,
                            [st EXCEPT !.queue = Tail(st.queue), !.tensors = applied.tensors])

\* ------------------------------------------------------- reduction kernels
Kernels ==
  { "ArgMax", "ArgMin", "ReduceL1", "ReduceL2", "ReduceMax", "ReduceMean", "ReduceMin",
    "ReduceProd", "ReduceSum", "ReduceLogSum", "ReduceSumSquare", "ReduceLogSumExp" }

\* ReduceKernel<allow_multi_axes> each kernel class derives from
AllowMultiAxes(kernel) == kernel \notin {"ArgMax", "ArgMin"}

\* The flags after the kernel's constructor ran
KernelFlags(kernel) ==
  [calculate_log |-> kernel = "ReduceLogSum",
   calculate_sqt |-> kernel = "ReduceSumSquare",
   log_sum_exp |-> kernel = "ReduceLogSumExp",
   fast_reduction |-> kernel = "ReduceSum"]

\* The template argument ReduceTensorIndices of the ComputeImpl call
ReduceTensorIndicesAllMaxMin(kernel) ==
  IF kernel \in {"ArgMax", "ArgMin", "ReduceMax", "ReduceMin"}
  THEN "MIOPEN_REDUCE_TENSOR_FLATTENED_INDICES"
  ELSE "MIOPEN_REDUCE_TENSOR_NO_INDICES"

ReduceTensorIndices(kernel) ==
  IF kernel \in {"ArgMax", "ArgMin"}
  THEN "MIOPEN_REDUCE_TENSOR_FLATTENED_INDICES"
  ELSE "MIOPEN_REDUCE_TENSOR_NO_INDICES"

\* The miopen_reduce_op argument of the ComputeImpl call
MiopenReduceOp(kernel) ==
  CASE kernel = "ArgMax" -> "MIOPEN_REDUCE_TENSOR_MAX"
    [] kernel = "ArgMin" -> "MIOPEN_REDUCE_TENSOR_MIN"
    [] kernel = "ReduceL1" -> "MIOPEN_REDUCE_TENSOR_NORM1"
    [] kernel = "ReduceL2" -> "MIOPEN_REDUCE_TENSOR_NORM2"
    [] kernel = "ReduceMax" -> "MIOPEN_REDUCE_TENSOR_MAX"
    [] kernel = "ReduceMean" -> "MIOPEN_REDUCE_TENSOR_AVG"
    [] kernel = "ReduceMin" -> "MIOPEN_REDUCE_TENSOR_MIN"
    [] kernel = "ReduceProd" -> "MIOPEN_REDUCE_TENSOR_MUL"
    [] kernel = "ReduceSum" -> "MIOPEN_REDUCE_TENSOR_ADD"
    [] kernel = "ReduceLogSum" -> "MIOPEN_REDUCE_TENSOR_ADD"
    [] kernel = "ReduceSumSquare" -> "MIOPEN_REDUCE_TENSOR_ADD"
    [] kernel = "ReduceLogSumExp" -> "MIOPEN_REDUCE_TENSOR_ADD"


\* ====================================================================== state
VARIABLES
  ops_,                \* ATenOperatorCache::ops_
  lookups,             \* per key, the findOperatorFor calls so far (saturating)
  autograd_contexts_,  \* AutogradContextCache::autograd_contexts_
  context_id_,         \* the static counter of CreateId
  nodes,               \* the autograd nodes the stored contexts keep alive
  issued,              \* per Insert, in call order: the id, the context, requires_grad
  last,                \* the last call of the extension: its inputs and how it ended
  kernels,             \* the constructed reduction kernels and their flags
  impl_call,           \* the last ComputeImpl call a kernel made
  loop,                \* a graph walk in progress: its queue and what it has processed
  threads              \* the calls of ExecuteATenOperator in progress on other threads

vars == <<ops_, lookups, autograd_contexts_, context_id_, nodes, issued, last,
          kernels, impl_call, loop, threads>>

\* ---------------------------------------------------- what the callers pass

\* the operator and argument vectors of the forward calls
FwdKeys == { <<"relu", "">> }
FwdDLPacks == { << F32 >>, << F32, F32 >> }

\* the operator and argument vectors of the graph-walk specification
WalkKeys == { <<"clamp", "Tensor">> }
WalkDLPacks ==
  { << F32, F32, NullDLPack >>, << F32, NullDLPack, NullDLPack >>, << I64, F32, NullDLPack >> }

\* argument vectors for the operators that are only run, never differentiated
OpsDLPacks ==
  { << F32 >>, << F32, F32, NullDLPack >>,
    << F32, I64, NullDLPack, NullDLPack >>, << F32, I64s, U8, NullDLPack >>,
    << F32, F32, U8 >>, << F32, F32x2, I64 >> }

\* the requires_grad vectors a caller passes
RequiresGrads == { <<>>, << 0 >>, << 1 >>, << 0, 1 >>, << 1, 0 >> }

\* the upstream gradient values of a backward call
GradValues == {1, 2}

\* what reading past the end of a vector can come to
UBOutcomes == {"crash", "throw"}

NoCall ==
  [call |-> "none", outcome |-> "ok", site |-> 0, key |-> <<"", "">>, looked_up |-> FALSE,
   index |-> 0, ret |-> FALSE,
   requires_grad |-> <<>>, has_ctx |-> FALSE, marked |-> {}, ran |-> FALSE,
   context_id |-> 0 - 1, ctx |-> NoContext,
   grad_in |-> 0, result |-> <<>>, grads |-> <<>>, graph |-> <<>>]

\* the threads that call ExecuteATenOperator at the same time
Threads == {"t1", "t2"}

\* no call in progress on any thread
NoThreads ==
  [pc |-> [t \in Threads |-> "idle"],
   context_id |-> [t \in Threads |-> 0 - 1],
   ctx |-> [t \in Threads |-> NoContext],
   racing |-> [t \in Threads |-> {}],
   calls |-> 0,
   ids |-> <<>>,
   returned |-> <<>>,
   interleaved |-> FALSE,
   overlapped |-> FALSE,
   crashed |-> FALSE]

\* no walk in progress
NoLoop ==
  [walk |-> "none", status |-> "idle", heap |-> <<>>, output_grad_fn |-> NullNode,
   grad_ptr_to_indices |-> <<>>, queue |-> <<>>, fns |-> <<>>,
   exec |-> ExecState(<<>>, <<>>, <<>>, {}), visits |-> <<>>]

Init ==
  /\ ops_ = <<>>
  /\ lookups = [k \in Keys |-> 0]
  /\ autograd_contexts_ = <<>>
  /\ context_id_ = 0
  /\ nodes = <<>>
  /\ issued = <<>>
  /\ last = NoCall
  /\ kernels = <<>>
  /\ impl_call = [kernel |-> "none", indices |-> "none", miopen_reduce_op |-> "none"]
  /\ loop = NoLoop
  /\ threads = NoThreads

Alive == last.outcome # "crash"

\* ------------------------------------------------------------ IsTensorArgument
IsTensorArgument(key, index) ==
  /\ Alive
  /\ LET got == GetOperator(ops_, lookups, key)
         called == [NoCall EXCEPT !.call = "IsTensorArgument", !.key = key, !.index = index,
                                  !.looked_up = got.looked_up]
     IN  /\ ops_' = got.ops
         /\ lookups' = got.lookups
         /\ last' = IF got.site # 0
                    THEN [called EXCEPT !.outcome = "assert", !.site = got.site]
                    ELSE IF ~(index < got.ops[key].argument_size)
                    THEN [called EXCEPT !.outcome = "assert", !.site = 220]
                    ELSE [called EXCEPT !.ret = (got.ops[key].elem_kinds[index + 1] = "TensorType")]
  /\ UNCHANGED <<autograd_contexts_, context_id_, nodes, issued, kernels, impl_call,
                 loop, threads>>

\* --------------------------------------------------------- ExecuteATenOperator
\* TORCH_INTERNAL_ASSERT(p_context_id || requires_grad.empty())
ContextAssertionDropped(has_ctx, requires_grad) == TRUE

ContextAssertion(has_ctx, requires_grad) == has_ctx \/ requires_grad = <<>>

\* grad_ptr_to_indices: the grad of the tensor of arguments[i] maps to i
GradPtrToIndices(c, n) == [v \in { Variable(c, i) : i \in 0..(n - 1) } |-> v[3]]

ExecuteATenOperator(key, dlpacks, requires_grad, has_ctx) ==
  /\ Alive
  /\ LET got == GetOperator(ops_, lookups, key)
         called == [NoCall EXCEPT !.call = "ExecuteATenOperator", !.key = key,
                                  !.looked_up = got.looked_up,
                                  !.requires_grad = requires_grad, !.has_ctx = has_ctx]
         NoInsert == UNCHANGED <<autograd_contexts_, context_id_, nodes, issued>>
     IN  /\ ops_' = got.ops
         /\ lookups' = got.lookups
         /\ UNCHANGED <<kernels, impl_call, loop, threads>>
         /\ IF got.site # 0
            THEN last' = [called EXCEPT !.outcome = "assert", !.site = got.site] /\ NoInsert
            ELSE
            LET aten_op == got.ops[key]
                conv == ToArguments(aten_op, dlpacks, 0, <<>>)
            IN
            IF Len(dlpacks) # aten_op.argument_size
            THEN last' = [called EXCEPT !.outcome = "assert", !.site = 251] /\ NoInsert
            ELSE IF conv.site # 0
            THEN last' = [called EXCEPT !.outcome = "assert", !.site = conv.site] /\ NoInsert
            ELSE
            LET mark == MarkArguments(aten_op, conv.arguments, requires_grad, 0, {}, "ub")
                marked == [called EXCEPT !.marked = mark.marked]
            IN
            IF mark.outcome = "ub"
            THEN /\ \E o \in UBOutcomes :
                      last' = [marked EXCEPT !.outcome = o, !.site = mark.site]
                 /\ NoInsert
            ELSE IF mark.outcome # "ok"
            THEN last' = [marked EXCEPT !.outcome = mark.outcome, !.site = mark.site] /\ NoInsert
            ELSE IF ~ContextAssertion(has_ctx, requires_grad)
            THEN last' = [marked EXCEPT !.outcome = "assert", !.site = 268] /\ NoInsert
            ELSE IF ~has_ctx
            THEN last' = [marked EXCEPT !.ran = TRUE] /\ NoInsert
            ELSE
            \E name \in ValidTemplates(conv.arguments) :
              LET c == context_id_
                  tmpl == Template(name)
                  heap == BuildGraph(c, tmpl, mark.marked)
                  output_grad_fn == OutputGradFn(c, tmpl, mark.marked)
                  n == Len(requires_grad)
                  walk == WalkForward(heap, GradPtrToIndices(c, n), << output_grad_fn >>,
                                      [i \in 1..n |-> NullNode])
                  autograd_context == AutogradContext(output_grad_fn, walk.input_grad_fns)
                  ran == [marked EXCEPT !.ran = TRUE]
              IN
              IF walk.outcome # "ok"
              THEN last' = [ran EXCEPT !.outcome = walk.outcome, !.site = walk.site] /\ NoInsert
              ELSE IF \E i \in 1..n : walk.input_grad_fns[i] = NullNode
              THEN last' = [ran EXCEPT !.outcome = "assert", !.site = 296] /\ NoInsert
              ELSE
              LET ins == Insert(autograd_contexts_, context_id_, autograd_context)
              IN  /\ autograd_contexts_' = ins.contexts
                  /\ context_id_' = ins.counter
                  /\ nodes' = heap @@ nodes
                  /\ issued' = Append(issued, [context_id |-> ins.context_id,
                                               ctx |-> autograd_context,
                                               requires_grad |-> requires_grad])
                  /\ last' = [ran EXCEPT !.context_id = ins.context_id,
                                         !.ctx = autograd_context]

\* ------------------------------------------------------- ExecuteATenOpBackward
\* the result loop: entry i is the grad of the variable of input_grad_fns[i]
ResultGradientsReversed(heap, fns, grads) ==
  [i \in 1..Len(fns) |-> grads[heap[fns[Len(fns) + 1 - i]].variable]]

ResultGradients(heap, fns, grads) ==
  [i \in 1..Len(fns) |-> grads[heap[fns[i]].variable]]

ExecuteATenOpBackward(g, context_id) ==
  /\ Alive
  /\ LET pop == Pop(autograd_contexts_, context_id)
         called == [NoCall EXCEPT !.call = "ExecuteATenOpBackward", !.context_id = context_id,
                                  !.grad_in = g]
     IN  /\ autograd_contexts_' = pop.contexts
         /\ IF pop.site # 0
            THEN last' = [called EXCEPT !.outcome = "assert", !.site = pop.site]
                 /\ UNCHANGED nodes
            ELSE
            LET autograd_context == pop.autograd_context
                exec == WalkBackward(nodes,
                          ExecState(<< <<autograd_context.output_grad_fn, 1>> >>, << g >>,
                                    <<>>, {}))
                fns == autograd_context.input_grad_fns
                freed == { id \in DOMAIN nodes : id[1] = context_id }
                done == [called EXCEPT !.ctx = autograd_context,
                                       !.graph = [id \in freed |-> nodes[id]],
                                       !.grads = [v \in DOMAIN exec.grad |->
                                                    exec.tensors[exec.grad[v]]]]
            IN  /\ nodes' = [id \in DOMAIN nodes \ freed |-> nodes[id]]
                /\ last' =
                     IF exec.outcome # "ok"
                     THEN [done EXCEPT !.outcome = exec.outcome, !.site = exec.site]
                     ELSE IF \E i \in 1..Len(fns) : nodes[fns[i]].variable \notin DOMAIN exec.grad
                     THEN [done EXCEPT !.outcome = "throw", !.site = 338]
                     ELSE [done EXCEPT !.result = ResultGradients(nodes, fns, done.grads)]
  /\ UNCHANGED <<ops_, lookups, context_id_, issued, kernels, impl_call, loop, threads>>

\* ------------------------------------------------------------ reduction kernels
\* the constructor of a kernel class
Construct(kernel) ==
  /\ kernel \notin DOMAIN kernels
  /\ kernels' = [k \in DOMAIN kernels \cup {kernel} |->
                   IF k = kernel
                   THEN [allow_multi_axes |-> AllowMultiAxes(kernel), flags |-> KernelFlags(kernel)]
                   ELSE kernels[k]]
  /\ UNCHANGED <<ops_, lookups, autograd_contexts_, context_id_, nodes, issued, last, impl_call,
                 loop, threads>>

\* ComputeInternal of a constructed kernel: the ComputeImpl call it makes
ComputeInternal(kernel) ==
  /\ kernel \in DOMAIN kernels
  /\ impl_call' = [kernel |-> kernel,
                   indices |-> ReduceTensorIndices(kernel),
                   miopen_reduce_op |-> MiopenReduceOp(kernel)]
  /\ UNCHANGED <<ops_, lookups, autograd_contexts_, context_id_, nodes, issued, last, kernels,
                 loop, threads>>

\* --------------------------------------------------- the loops, step by step
\* the backward nodes of a graph, none of them processed yet
NoVisits(heap) == [id \in { n \in DOMAIN heap : n[2] = "fn" } |-> 0]

Visit(visits, id) == [visits EXCEPT ![id] = visits[id] + 1]

\* ExecuteATenOperator reaches its loop (line 276): the operator has built a
\* graph over its tensor arguments, of which the first n require grad, and
\* the output's grad_fn is pushed.
StartForwardWalk(name, n) ==
  LET tmpl == LoopTemplate(name)
      marked == 0..(n - 1)
      heap == BuildGraph(0, tmpl, marked)
      output_grad_fn == OutputGradFn(0, tmpl, marked)
  IN  /\ loop.status \in {"idle", "done"}
      /\ output_grad_fn # NullNode
      /\ loop' = [NoLoop EXCEPT !.walk = "forward", !.status = "running", !.heap = heap,
                                !.output_grad_fn = output_grad_fn,
                                !.grad_ptr_to_indices = GradPtrToIndices(0, n),
                                !.queue = << output_grad_fn >>,
                                !.fns = [i \in 1..n |-> NullNode],
                                !.visits = NoVisits(heap)]
      /\ UNCHANGED <<ops_, lookups, autograd_contexts_, context_id_, nodes, issued, last,
                     kernels, impl_call, threads>>

\* one iteration of the loop at lines 277-293, and the loop test after it
ForwardStep ==
  /\ loop.walk = "forward" /\ loop.status = "running" /\ loop.queue # <<>>
  /\ LET it == ForwardIteration(loop.heap, loop.grad_ptr_to_indices, loop.queue, loop.fns)
     IN  loop' = [loop EXCEPT !.queue = it.queue, !.fns = it.fns,
                              !.visits = Visit(loop.visits, Head(loop.queue)),
                              !.status = IF it.outcome = "crash" THEN "crash"
                                         ELSE IF it.queue = <<>> THEN "done" ELSE "running"]
  /\ UNCHANGED <<ops_, lookups, autograd_contexts_, context_id_, nodes, issued, last,
                 kernels, impl_call, threads>>

\* ExecuteATenOpBackward reaches its loop (line 312) with the context of a
\* forward call that passed the assertion at line 296.
StartBackwardWalk(g) ==
  /\ loop.walk = "forward" /\ loop.status = "done"
  /\ \A i \in 1..Len(loop.fns) : loop.fns[i] # NullNode
  /\ loop' = [loop EXCEPT !.walk = "backward", !.status = "running",
                          !.exec = ExecState(<< <<loop.output_grad_fn, 1>> >>, << g >>, <<>>, {}),
                          !.visits = NoVisits(loop.heap)]
  /\ UNCHANGED <<ops_, lookups, autograd_contexts_, context_id_, nodes, issued, last,
                 kernels, impl_call, threads>>

\* one iteration of the loop at lines 312-333, and the loop test after it
BackwardStep ==
  /\ loop.walk = "backward" /\ loop.status = "running" /\ loop.exec.queue # <<>>
  /\ LET it == ExecuteUnit(loop.heap, loop.exec)
     IN  loop' = [loop EXCEPT !.exec = it.st,
                              !.visits = Visit(loop.visits, Head(loop.exec.queue)[1]),
                              !.status = IF it.outcome = "crash" THEN "crash"
                                         ELSE IF it.st.queue = <<>> THEN "done" ELSE "running"]
  /\ UNCHANGED <<ops_, lookups, autograd_contexts_, context_id_, nodes, issued, last,
                 kernels, impl_call, threads>>

\* ------------------------------------- ExecuteATenOperator on several threads
\* A call on thread t with a non-null p_context_id, from its entry to
\* line 299: the operator is in the cache, so GetOperator only reads ops_;
\* the graph the call builds is its own.
ThreadCall(t, key) ==
  /\ ~threads.crashed
  /\ threads.pc[t] = "idle"
  /\ threads.calls < MaxThreadCalls
  /\ key \in DOMAIN ops_
  /\ GetOperator(ops_, lookups, key).site = 0
  /\ threads' = [threads EXCEPT
                   !.pc[t] = "insert",
                   !.calls = threads.calls + 1,
                   !.ctx[t] = AutogradContext(FnNode(threads.calls, 1), <<>>),
                   !.interleaved = threads.interleaved
                                     \/ \E u \in Threads \ {t} : threads.pc[u] # "idle"]
  /\ UNCHANGED <<ops_, lookups, autograd_contexts_, context_id_, nodes, issued, last,
                 kernels, impl_call, loop>>

\* Insert, line 194: CreateId, one atomic fetch-and-increment
ThreadCreateId(t) ==
  /\ ~threads.crashed
  /\ threads.pc[t] = "insert"
  /\ LET created == CreateId(context_id_)
     IN  /\ context_id_' = created.counter
         /\ threads' = [threads EXCEPT !.pc[t] = "created",
                                       !.context_id[t] = created.id,
                                       !.ids = Append(threads.ids, created.id)]
  /\ UNCHANGED <<ops_, lookups, autograd_contexts_, nodes, issued, last, kernels, impl_call,
                 loop>>

\* Insert, line 195: the emplace starts to change the map; it runs at the
\* same time as every emplace that has started and not finished
ThreadEmplaceBegin(t) ==
  /\ ~threads.crashed
  /\ threads.pc[t] = "created"
  /\ LET others == { u \in Threads \ {t} : threads.pc[u] = "emplacing" }
     IN  threads' = [threads EXCEPT
                       !.pc[t] = "emplacing",
                       !.racing = [u \in Threads |->
                                     IF u = t THEN { threads.context_id[o] : o \in others }
                                     ELSE IF u \in others
                                     THEN threads.racing[u] \cup {threads.context_id[t]}
                                     ELSE threads.racing[u]],
                       !.overlapped = threads.overlapped \/ others # {}]
  /\ UNCHANGED <<ops_, lookups, autograd_contexts_, context_id_, nodes, issued, last,
                 kernels, impl_call, loop>>

\* Insert, lines 195-196, and the return of the call: the emplace is done
\* and the id goes back to the caller; after a data race the map is any of
\* RacedEmplace, or the process has ended
ThreadEmplaceEnd(t) ==
  /\ ~threads.crashed
  /\ threads.pc[t] = "emplacing"
  /\ LET done == [threads EXCEPT
                    !.pc[t] = "idle",
                    !.racing[t] = {},
                    !.returned = Append(threads.returned,
                                        [context_id |-> threads.context_id[t],
                                         ctx |-> threads.ctx[t]])]
     IN  \/ /\ autograd_contexts_' \in RacedEmplace(autograd_contexts_, threads.context_id[t],
                                                    threads.ctx[t], threads.racing[t])
            /\ threads' = done
         \/ /\ threads.racing[t] # {}
            /\ threads' = [threads EXCEPT !.crashed = TRUE]
            /\ UNCHANGED autograd_contexts_
  /\ UNCHANGED <<ops_, lookups, context_id_, nodes, issued, last, kernels, impl_call, loop>>

\* ============================================================= specifications
\* The extension as the graph executor drives it: forward and backward calls
\* of a unary operator, several contexts in flight.
Forward ==
  \E key \in FwdKeys, dlpacks \in FwdDLPacks, requires_grad \in RequiresGrads,
     has_ctx \in BOOLEAN :
    /\ has_ctx => context_id_ < MaxContexts
    /\ ExecuteATenOperator(key, dlpacks, requires_grad, has_ctx)

Backward ==
  \E g \in GradValues, context_id \in 0..MaxContexts :
    ExecuteATenOpBackward(g, context_id)

Next == Forward \/ Backward

Spec == Init /\ [][Next]_vars

\* The two walks over the graphs of an operator with several tensor arguments.
WalkForwardCall ==
  \E key \in WalkKeys, dlpacks \in WalkDLPacks, requires_grad \in RequiresGrads,
     has_ctx \in BOOLEAN :
    /\ has_ctx => context_id_ < MaxWalks
    /\ ExecuteATenOperator(key, dlpacks, requires_grad, has_ctx)

WalkBackwardCall ==
  \E g \in GradValues, context_id \in 0..MaxWalks :
    ExecuteATenOpBackward(g, context_id)

NextWalk == WalkForwardCall \/ WalkBackwardCall

SpecWalk == Init /\ [][NextWalk]_vars

\* The operator cache under every operator name, run without autograd.
Run ==
  \E key \in Keys, dlpacks \in OpsDLPacks :
    ExecuteATenOperator(key, dlpacks, <<>>, FALSE)

Check ==
  \E key \in Keys, index \in 0..4 : IsTensorArgument(key, index)

NextOps == Run \/ Check

SpecOps == Init /\ [][NextOps]_vars

\* The reduction kernels.
NewKernel == \E kernel \in Kernels : Construct(kernel)

Compute == \E kernel \in Kernels : ComputeInternal(kernel)

NextReduce == NewKernel \/ Compute

SpecReduce == Init /\ [][NextReduce]_vars

\* The two loops run iteration by iteration; a loop that is running keeps
\* running (the thread executing the call is not suspended for ever).
ForwardWalkBegins == \E name \in LoopTemplateNames, n \in 1..2 : StartForwardWalk(name, n)

BackwardWalkBegins == \E g \in GradValues : StartBackwardWalk(g)

NextLoop == ForwardWalkBegins \/ ForwardStep \/ BackwardWalkBegins \/ BackwardStep

SpecLoop == Init /\ [][NextLoop]_vars /\ WF_vars(ForwardStep) /\ WF_vars(BackwardStep)

\* Calls of ExecuteATenOperator on two threads, after a first call, made
\* alone, has put the operator into the cache.
FirstCall ==
  /\ \A t \in Threads : threads.pc[t] = "idle"
  /\ \E key \in FwdKeys :
       /\ key \notin DOMAIN ops_
       /\ ExecuteATenOperator(key, << F32 >>, <<>>, FALSE)

Call == \E t \in Threads, key \in FwdKeys : ThreadCall(t, key)

CreateIdStep == \E t \in Threads : ThreadCreateId(t)

EmplaceBegin == \E t \in Threads : ThreadEmplaceBegin(t)

EmplaceEnd == \E t \in Threads : ThreadEmplaceEnd(t)

NextThreads == FirstCall \/ Call \/ CreateIdStep \/ EmplaceBegin \/ EmplaceEnd

SpecThreads == Init /\ [][NextThreads]_vars


\* ===================================================================== claims
IsForward == last.call = "ExecuteATenOperator"
IsBackward == last.call = "ExecuteATenOpBackward"
Returned == last.outcome = "ok"

\* the positions of issued that hold the context id
IssuedAt(id) == { k \in 1..Len(issued) : issued[k].context_id = id }

\* C1: a forward call with a non-null p_context_id that returns has stored
\* exactly one new context under the id it wrote to *p_context_id; a stored
\* context stays as it was inserted whatever other calls happen; and a
\* backward call with that id gets that same context (same output_grad_fn,
\* same input_grad_fns).
C1_StoredAsIssued ==
  /\ \A id \in DOMAIN autograd_contexts_ :
       \E k \in IssuedAt(id) : IssuedAt(id) = {k} /\ autograd_contexts_[id] = issued[k].ctx
  /\ (IsForward /\ Returned /\ last.has_ctx) =>
       /\ issued # <<>>
       /\ issued[Len(issued)].context_id = last.context_id
       /\ issued[Len(issued)].ctx = last.ctx
       /\ last.context_id \in DOMAIN autograd_contexts_
       /\ autograd_contexts_[last.context_id] = last.ctx
  /\ (IsBackward /\ Returned) =>
       \E k \in IssuedAt(last.context_id) :
         IssuedAt(last.context_id) = {k} /\ last.ctx = issued[k].ctx

C1_OneNewContext ==
  (last'.call = "ExecuteATenOperator" /\ last'.outcome = "ok" /\ last'.has_ctx) =>
     /\ last'.context_id \notin DOMAIN autograd_contexts_
     /\ DOMAIN autograd_contexts_' = DOMAIN autograd_contexts_ \cup {last'.context_id}
     /\ \A id \in DOMAIN autograd_contexts_ : autograd_contexts_'[id] = autograd_contexts_[id]
     /\ Len(issued') = Len(issued) + 1

C1_ContextRoundTrip == [](C1_StoredAsIssued) /\ [][C1_OneNewContext]_vars

\* reached: the backward call of the first context returns after a second
\* forward call stored its own context
C1_Witness ==
  /\ IsBackward /\ Returned /\ last.context_id = 0
  /\ Len(issued) = 2
  /\ 1 \in DOMAIN autograd_contexts_

\* C2: the ids Insert returns are 0, 1, 2, ... in call order; none is
\* returned twice, also after its context has been popped.
C2_IdsInCallOrder ==
  \A k \in 1..Len(issued) : issued[k].context_id = k - 1

\* reached: the second Insert happens after the first context was popped
C2_Witness ==
  /\ IsForward /\ Returned /\ last.has_ctx
  /\ Len(issued) = 2
  /\ 0 \notin DOMAIN autograd_contexts_

\* C3: a backward call with a stored id gets the context and removes it; a
\* backward call with an id that is not stored (already consumed, or never
\* returned by a forward call) fails the assertion of Pop and leaves the
\* cache unchanged.
C3_Step ==
  (last'.call = "ExecuteATenOpBackward") =>
     LET id == last'.context_id
     IN  IF id \in DOMAIN autograd_contexts_
         THEN /\ last'.ctx = autograd_contexts_[id]
              /\ ~(last'.outcome = "assert" /\ last'.site = 201)
              /\ DOMAIN autograd_contexts_' = DOMAIN autograd_contexts_ \ {id}
              /\ \A other \in DOMAIN autograd_contexts_' :
                   autograd_contexts_'[other] = autograd_contexts_[other]
         ELSE /\ last'.outcome = "assert" /\ last'.site = 201
              /\ autograd_contexts_' = autograd_contexts_
              /\ nodes' = nodes

C3_ConsumedAtMostOnce ==
  /\ [](IsBackward => last.context_id \notin DOMAIN autograd_contexts_)
  /\ [][C3_Step]_vars

\* reached: a second backward call with an id a forward call returned
C3_Witness ==
  /\ IsBackward /\ last.outcome = "assert" /\ last.site = 201
  /\ IssuedAt(last.context_id) # {}
  /\ autograd_contexts_ # <<>>

\* C9: a forward call with a null p_context_id stores no context and takes no
\* id; with an empty requires_grad it runs the operator when it returns; with
\* a non-empty requires_grad it never returns and never runs the operator,
\* and when the marking loop completed it is the assertion on p_context_id
\* that fails.
C9_Step ==
  (last'.call = "ExecuteATenOperator" /\ ~last'.has_ctx) =>
     /\ autograd_contexts_' = autograd_contexts_
     /\ context_id_' = context_id_
     /\ nodes' = nodes
     /\ issued' = issued
     /\ (last'.requires_grad = <<>> /\ last'.outcome = "ok") => last'.ran
     /\ (last'.requires_grad # <<>>) =>
          /\ last'.outcome # "ok"
          /\ ~last'.ran
          /\ (Cardinality(last'.marked) = Len(last'.requires_grad)) =>
               (last'.outcome = "assert" /\ last'.site = 268)

RequiresGradOf(id) == issued[CHOOSE k \in IssuedAt(id) : TRUE].requires_grad

\* C4: the context a forward call saves holds the grad_fn of the first
\* output and, at each position i of requires_grad, the AccumulateGrad node
\* of the argument with index requires_grad[i]; the arguments marked as
\* requiring grad are exactly those listed in requires_grad.
C4_ContextFollowsRequiresGrad ==
  (IsForward /\ Returned /\ last.has_ctx) =>
     LET rg == last.requires_grad
         c == last.context_id
     IN  /\ last.ctx.output_grad_fn = FnNode(c, 1)
         /\ Len(last.ctx.input_grad_fns) = Len(rg)
         /\ \A i \in 1..Len(rg) : last.ctx.input_grad_fns[i] = AccNode(c, rg[i])
         /\ last.marked = { rg[i] : i \in 1..Len(rg) }

EdgeGradient(edge, g) == IF edge.alias THEN g ELSE edge.w * g

\* the sum, over the paths from node to the AccumulateGrad of variable v, of
\* the gradient that arrives along the path when node receives g
RECURSIVE PathSum(_, _, _, _)
RECURSIVE PathSumEdges(_, _, _, _, _)
PathSumEdges(graph, edges, i, g, v) ==
  IF i > Len(edges) THEN 0
  ELSE LET function == edges[i].function
           gi == EdgeGradient(edges[i], g)
           term == IF graph[function].name = AccumulateGradName
                   THEN IF graph[function].variable = v THEN gi ELSE 0
                   ELSE PathSum(graph, function, gi, v)
       IN  term + PathSumEdges(graph, edges, i + 1, g, v)

PathSum(graph, node, g, v) == PathSumEdges(graph, graph[node].next_edges, 1, g, v)

\* C6: at the end of a backward call the grad of every AccumulateGrad
\* variable the walk reached is the sum of the gradients delivered into it,
\* one term per path from the output grad_fn.
C6_GradIsSumOverPaths ==
  (IsBackward /\ Returned) =>
     \A v \in DOMAIN last.grads :
       last.grads[v] = PathSum(last.graph, last.ctx.output_grad_fn, last.grad_in, v)

\* ---------------------------------------------------------- the operator cache
\* the schema type of an argument with Optional unwrapped
UnwrapOptional(type) == IF Head(type) = "OptionalType" THEN Tail(type) ELSE type

\* C7: IsTensorArgument returns true exactly when the argument's schema type,
\* with Optional unwrapped, is Tensor (so false for Int, Float, Bool and list
\* arguments); for an operator GetOperator accepts, an index that is not
\* below the argument count fails the assertion of IsTensorArgument.
C7_IsTensorArgument ==
  (last.call = "IsTensorArgument") =>
     /\ Returned =>
          /\ last.key \in DOMAIN Registry
          /\ last.index < Len(Registry[last.key].arguments)
          /\ LET type == UnwrapOptional(Registry[last.key].arguments[last.index + 1].type)
             IN  /\ last.ret = (type = <<"TensorType">>)
                 /\ Head(type) \in {"IntType", "FloatType", "BoolType", "ListType"}
                      => last.ret = FALSE
     /\ (last.key \in DOMAIN Registry /\ last.index >= Len(Registry[last.key].arguments)) =>
          /\ last.outcome = "assert"
          /\ last.key \in DOMAIN ops_ => last.site = 220

\* reached: true is returned for an Optional(Tensor) argument
C7_Witness ==
  /\ last.call = "IsTensorArgument" /\ Returned /\ last.ret
  /\ Head(Registry[last.key].arguments[last.index + 1].type) = "OptionalType"

\* C8: a key that GetOperator resolved has been looked up in the registry
\* exactly once, however many calls named it; its entry is the one built from
\* the schema at that lookup and is never removed or replaced.
C8_EntryKept ==
  \A k \in DOMAIN ops_ :
    /\ k \in DOMAIN ops_'
    /\ ops_'[k] = ops_[k]
    /\ lookups'[k] = lookups[k]

C8_LookedUpOnce ==
  /\ [](\A k \in DOMAIN ops_ :
          /\ lookups[k] = 1
          /\ ops_[k] = BuildATenOperator(k, Registry[k]))
  /\ [](last.looked_up => lookups[last.key] >= 1)
  /\ [][C8_EntryKept]_vars

\* reached: a later call with a cached key is served without a lookup
C8_Witness ==
  /\ last.call \in {"IsTensorArgument", "ExecuteATenOperator"}
  /\ last.key \in DOMAIN ops_
  /\ ~last.looked_up
  /\ lookups[last.key] = 1
  /\ Cardinality(DOMAIN ops_) >= 2

\* --------------------------------------------------------- reduction kernels
\* the reduce operation the claim gives for each kernel
ClaimedOp(kernel) ==
  CASE kernel \in {"ReduceSum", "ReduceLogSum", "ReduceSumSquare", "ReduceLogSumExp"}
         -> "MIOPEN_REDUCE_TENSOR_ADD"
    [] kernel = "ReduceMean" -> "MIOPEN_REDUCE_TENSOR_AVG"
    [] kernel \in {"ReduceMax", "ArgMax"} -> "MIOPEN_REDUCE_TENSOR_MAX"
    [] kernel \in {"ReduceMin", "ArgMin"} -> "MIOPEN_REDUCE_TENSOR_MIN"
    [] kernel = "ReduceProd" -> "MIOPEN_REDUCE_TENSOR_MUL"
    [] kernel = "ReduceL1" -> "MIOPEN_REDUCE_TENSOR_NORM1"
    [] kernel = "ReduceL2" -> "MIOPEN_REDUCE_TENSOR_NORM2"

\* C10: every kernel passes its one fixed reduce operation to ComputeImpl;
\* flattened indices are requested only with MAX or MIN, by ArgMax and ArgMin
\* exactly, which are the only single-axis kernels; every other kernel uses
\* NO_INDICES.
C10_KernelTable ==
  /\ \A k \in DOMAIN kernels : kernels[k].allow_multi_axes = (k \notin {"ArgMax", "ArgMin"})
  /\ (impl_call.kernel # "none") =>
       /\ impl_call.miopen_reduce_op = ClaimedOp(impl_call.kernel)
       /\ (impl_call.indices = "MIOPEN_REDUCE_TENSOR_FLATTENED_INDICES")
            = (impl_call.kernel \in {"ArgMax", "ArgMin"})
       /\ (impl_call.indices = "MIOPEN_REDUCE_TENSOR_FLATTENED_INDICES") =>
            impl_call.miopen_reduce_op \in {"MIOPEN_REDUCE_TENSOR_MAX", "MIOPEN_REDUCE_TENSOR_MIN"}
       /\ (impl_call.indices # "MIOPEN_REDUCE_TENSOR_FLATTENED_INDICES") =>
            impl_call.indices = "MIOPEN_REDUCE_TENSOR_NO_INDICES"

\* reached: ReduceMax, whose operation is MAX, computes without indices
C10_Witness ==
  /\ impl_call.kernel = "ReduceMax"
  /\ impl_call.indices = "MIOPEN_REDUCE_TENSOR_NO_INDICES"
  /\ "ArgMax" \in DOMAIN kernels

\* ------------------------------------------------------- termination of the walks
\* the number of paths of edges from the node from to the node to
RECURSIVE PathCount(_, _, _)
RECURSIVE PathCountEdges(_, _, _, _)
PathCountEdges(heap, edges, i, to) ==
  IF i > Len(edges) THEN 0
  ELSE LET function == edges[i].function
           term == IF function = NullNode \/ function \notin DOMAIN heap THEN 0
                   ELSE IF heap[function].name = AccumulateGradName THEN 0
                   ELSE PathCount(heap, function, to)
       IN  term + PathCountEdges(heap, edges, i + 1, to)

PathCount(heap, from, to) ==
  IF from = to THEN 1 ELSE PathCountEdges(heap, heap[from].next_edges, 1, to)

LoopQueue == IF loop.walk = "backward" THEN loop.exec.queue ELSE loop.queue

\* the loop has ended with an empty queue, every backward node processed
\* once per path that leads to it from the output grad_fn
WalkedOncePerPath ==
  /\ loop.status = "done"
  /\ LoopQueue = <<>>
  /\ \A id \in DOMAIN loop.visits :
       loop.visits[id] = PathCount(loop.heap, loop.output_grad_fn, id)

\* every edge of the graph leads to a node
AllEdgesValid ==
  \A id \in DOMAIN loop.heap : \A i \in 1..Len(loop.heap[id].next_edges) :
    loop.heap[id].next_edges[i].function # NullNode

\* C11: on every finite acyclic graph the forward edge walk and the backward
\* execution loop end with an empty queue, having processed every backward
\* node reachable from the output grad_fn once per path that reaches it.
C11_WalksTerminate ==
  /\ [](loop.status = "done" => WalkedOncePerPath)
  /\ (loop.status = "running") ~> WalkedOncePerPath

\* C11, on the graphs all of whose edges lead to a node: there the loops do
\* end as the claim says.
C11_WalksTerminateOnValidEdges ==
  /\ [](loop.status = "done" => WalkedOncePerPath)
  /\ (loop.status = "running" /\ AllEdgesValid) ~> WalkedOncePerPath

\* reached: a walk ended with a node processed more often than once
C11_Witness ==
  /\ WalkedOncePerPath
  /\ \E id \in DOMAIN loop.visits : loop.visits[id] >= 4


\* ------------------------------------------------------- the caches and threads
\* the ids CreateId has handed out are pairwise distinct
IdsDistinct ==
  \A i, j \in 1..Len(threads.ids) : threads.ids[i] = threads.ids[j] => i = j

\* every call that returned has its context in the cache under its id
ReturnedContextsStored ==
  \A i \in 1..Len(threads.returned) :
    LET r == threads.returned[i]
    IN  /\ r.context_id \in DOMAIN autograd_contexts_
        /\ autograd_contexts_[r.context_id] = r.ctx

\* when the calls were made one after the other, no cache operation ran at
\* the same time as another
SequentialNeverOverlaps == ~threads.interleaved => ~threads.overlapped

====
